---- MODULE Spec2Model ----
(***************************************************************************)
(* A model of src/app/page.tsx: the HomePage component, its                *)
(* multiplyMatrices handler and the WGSL compute shader it dispatches.     *)
(*                                                                         *)
(* JavaScript arrays and GPU buffers are sequences read with a 0-based     *)
(* accessor, so that indices are the ones the code computes.               *)
(***************************************************************************)
EXTENDS Integers, Sequences, FiniteSets, TLC

VARIABLES
    matrixA,       \* useState: matrixA
    matrixB,       \* useState: matrixB
    resultMatrix,  \* useState: resultMatrix (NULL before the first result)
    error,         \* useState: error (NULL or a message)
    loading,       \* useState: loading
    view,          \* what the last render showed and closed over
    inv,           \* the invocations of multiplyMatrices, by number
    edits,         \* how many times updateMatrix has run
    navigatorGpu,  \* whether the browser has navigator.gpu
    calc,          \* one run of the data path, stage by stage
    grid           \* one dispatch of the shader, work item by work item

vars == <<matrixA, matrixB, resultMatrix, error, loading, view, inv, edits,
          navigatorGpu, calc, grid>>

\* The page outside the matrices: what the data path and the dispatch,
\* taken alone, leave as built.
pageVars == <<resultMatrix, error, loading, view, inv, navigatorGpu>>

NULL == "null"

(***************************************************************************)
(* Program constants                                                       *)
(***************************************************************************)
\* const MATRIX_SIZE = 4;
MATRIX_SIZE == 4

\* const BUFFER_SIZE = MATRIX_SIZE * MATRIX_SIZE * 4; (bytes, 4 per Float32)
BUFFER_SIZE == MATRIX_SIZE * MATRIX_SIZE * 4

\* @workgroup_size(8, 8)
WORKGROUP_SIZE == 8

\* passEncoder.dispatchWorkgroups(1, 1): the literal group counts
DISPATCH_X == 1
DISPATCH_Y == 1

\* A Float32 holds a 24-bit significand: every integer of magnitude at most
\* 2^24 is a Float32, and above it only multiples of the quantum are.
F32_SIGNIFICAND_BITS == 24

(***************************************************************************)
(* Bounds of the model                                                     *)
(***************************************************************************)
\* Cell values the user types are 0..MaxVal.
MaxVal == 2
\* Matrix dimensions a configuration may choose are 1..MaxN.
MaxN == 9
\* multiplyMatrices is invoked at most MaxInv times.
MaxInv == 2
\* updateMatrix is called at most MaxEdits times.
MaxEdits == 1
\* On the page the model edits the cells of rows and columns 0..MaxEditCell.
MaxEditCell == 0
\* At most MaxFaults objects fail to be created in one invocation.
MaxFaults == 1

(***************************************************************************)
(* Arithmetic                                                              *)
(***************************************************************************)
Abs(x) == IF x < 0 THEN -x ELSE x

RECURSIVE Pow2(_)
Pow2(e) == IF e = 0 THEN 1 ELSE 2 * Pow2(e - 1)

\* The integers of magnitude up to 2^24 are all Float32 values.
F32_EXACT_LIMIT == Pow2(F32_SIGNIFICAND_BITS)

\* The spacing of the Float32 values around magnitude a (a power of two).
RECURSIVE F32Quantum(_, _)
F32Quantum(a, q) ==
    IF a <= F32_EXACT_LIMIT * q THEN q ELSE F32Quantum(a, 2 * q)

\* The nearest Float32 to the integer v, ties to even.
NearestF32(v) ==
    LET a    == Abs(v)
        q    == F32Quantum(a, 1)
        lo   == (a \div q) * q
        r    == a - lo
        up   == IF 2 * r > q THEN TRUE
                ELSE IF 2 * r < q THEN FALSE
                ELSE (lo \div q) % 2 = 1
        m    == IF up THEN lo + q ELSE lo
    IN  IF v < 0 THEN -m ELSE m

\* Rounding a number to Float32: what storing into a Float32Array, and
\* every f32 operation of the shader, does. (The number is bound to v
\* so that it is computed once.)
Fround(x) == CHOOSE f \in {NearestF32(v) : v \in {x}} : TRUE

(***************************************************************************)
(* Arrays                                                                  *)
(***************************************************************************)
\* arr[i] of a JavaScript array or a buffer, 0-based.
At(arr, i) == arr[i + 1]

\* A buffer read by the shader. An index outside the buffer is a robust
\* buffer access: the read yields no element of the buffer (modelled as 0).
Load(buf, i) == IF i >= 0 /\ i < Len(buf) THEN buf[i + 1] ELSE 0

\* A buffer write by the shader; a write outside the buffer is discarded.
Store(buf, i, v) ==
    IF i >= 0 /\ i < Len(buf) THEN [buf EXCEPT ![i + 1] = v] ELSE buf

\* device.createBuffer({size}): 'size' bytes, zero-initialised, as Float32s.
ZeroBuffer(bytes) == [k \in 1..(bytes \div 4) |-> 0]

\* Array.from({length: n}, () => Array.from({length: n}, () => 0))
createDefaultMatrixN(n) == [i \in 1..n |-> [j \in 1..n |-> 0]]

createDefaultMatrix == createDefaultMatrixN(MATRIX_SIZE)

\* useState initialiser of matrixA: row.map((_, j) => (i === j ? 1 : 0))
InitialMatrixAN(n) ==
    [i \in 1..n |-> [j \in 1..n |->
        IF (i - 1) = (j - 1) THEN 1 ELSE createDefaultMatrixN(n)[i][j]]]

\* useState initialiser of matrixB: row.map((_, j) => i * MATRIX_SIZE + j + 1)
InitialMatrixBN(n) ==
    [i \in 1..n |-> [j \in 1..n |-> (i - 1) * n + (j - 1) + 1]]

(***************************************************************************)
(* Host buffer codec                                                       *)
(***************************************************************************)
\* matrix.flat(): the rows concatenated, in order.
RECURSIVE Flat(_)
Flat(matrix) ==
    IF matrix = <<>> THEN <<>> ELSE Head(matrix) \o Flat(Tail(matrix))

\* new Float32Array(values): each element rounded to Float32.
Float32Array(values) == [k \in 1..Len(values) |-> Fround(values[k])]

\* const flatten = (matrix) => new Float32Array(matrix.flat());
flatten(matrix) == Float32Array(Flat(matrix))

\* A slice that takes its end as the last element, not the one past it.
SliceInclusive(arr, begin, end) ==
    LET e == IF end + 1 > Len(arr) THEN Len(arr) ELSE end + 1
    IN  IF begin >= e THEN <<>> ELSE [k \in 1..(e - begin) |-> arr[begin + k]]

\* typedArray.slice(begin, end): elements begin..end-1 (clamped to the array).
Slice(arr, begin, end) ==
    LET e == IF end > Len(arr) THEN Len(arr) ELSE end
    IN  IF begin >= e THEN <<>> ELSE [k \in 1..(e - begin) |-> arr[begin + k]]

\* The loop of lines 160-165: n rows, row i = resultData.slice(i*n, i*n + n)
\* (Array.from widens each Float32 to a number without changing it).
RECURSIVE ReconstructRows(_, _, _)
ReconstructRows(resultData, n, i) ==
    IF i < n
    THEN <<Slice(resultData, i * n, i * n + n)>>
            \o ReconstructRows(resultData, n, i + 1)
    ELSE <<>>

reconstructN(resultData, n) == ReconstructRows(resultData, n, 0)

reconstruct(resultData) == reconstructN(resultData, MATRIX_SIZE)

(***************************************************************************)
(* The compute shader                                                      *)
(***************************************************************************)
\* The loop reading matrixB by row where main reads it by column.
RECURSIVE DotLoopRowOfB(_, _, _, _, _, _, _)
DotLoopRowOfB(n, bufA, bufB, x, y, i, acc) ==
    IF i < n
    THEN LET aIndex == y * n + i
             bIndex == x * n + i
             prod   == Fround(Load(bufA, aIndex) * Load(bufB, bIndex))
             next   == [sum    |-> Fround(acc.sum + prod),
                        readsA |-> acc.readsA \cup {aIndex},
                        readsB |-> acc.readsB \cup {bIndex}]
         IN  CHOOSE r \in {DotLoopRowOfB(n, bufA, bufB, x, y, i + 1, v) :
                              v \in {next}} : TRUE
    ELSE acc

\* The for loop of main: i from 0 while i < n, accumulating in f32, and the
\* indices it reads of matrixA and matrixB. (The accumulator of a turn is
\* bound to v so that it is computed once.)
RECURSIVE DotLoop(_, _, _, _, _, _, _)
DotLoop(n, bufA, bufB, x, y, i, acc) ==
    IF i < n
    THEN LET aIndex == y * n + i
             bIndex == i * n + x
             prod   == Fround(Load(bufA, aIndex) * Load(bufB, bIndex))
             next   == [sum    |-> Fround(acc.sum + prod),
                        readsA |-> acc.readsA \cup {aIndex},
                        readsB |-> acc.readsB \cup {bIndex}]
         IN  CHOOSE r \in {DotLoop(n, bufA, bufB, x, y, i + 1, v) :
                              v \in {next}} : TRUE
    ELSE acc

\* The guard with > where main has >=.
InBoundsOffByOne(n, x, y) == ~(x > n \/ y > n)

\* if (id.x >= MATRIX_SIZE || id.y >= MATRIX_SIZE) { return; }
InBounds(n, x, y) == ~(x >= n \/ y >= n)

\* let index = id.y * MATRIX_SIZE + id.x;
OutIndex(n, x, y) == y * n + x

\* One work item (id.x, id.y) of fn main, for a shader generated with
\* MATRIX_SIZE = n: the buffer it leaves and what it accessed.
main(n, bufA, bufB, bufOut, x, y) ==
    IF ~InBounds(n, x, y)
    THEN [out |-> bufOut, wrote |-> FALSE, index |-> -1,
          readsA |-> {}, readsB |-> {}]
    ELSE LET r == DotLoop(n, bufA, bufB, x, y, 0,
                      [sum |-> 0, readsA |-> {}, readsB |-> {}])
         IN  [out |-> Store(bufOut, OutIndex(n, x, y), r.sum),
              wrote |-> TRUE, index |-> OutIndex(n, x, y),
              readsA |-> r.readsA, readsB |-> r.readsB]

\* The grid of dispatchWorkgroups(gx, gy) with 8x8 workgroups: work item
\* number g has id.x = g mod width and id.y = g div width.
GridWidth(gx) == gx * WORKGROUP_SIZE
GridSize(gx, gy) == (gx * WORKGROUP_SIZE) * (gy * WORKGROUP_SIZE)
ItemX(g, gx) == g % GridWidth(gx)
ItemY(g, gx) == g \div GridWidth(gx)

\* The whole compute pass: every work item of the grid runs main on the
\* bound buffers. Work items write distinct cells, so the order they run in
\* does not change the result; they are taken by number. (The buffer a
\* work item leaves is bound to v so that it is computed once.)
RECURSIVE RunItems(_, _, _, _, _, _, _)
RunItems(n, bufA, bufB, bufOut, gx, gy, g) ==
    IF g < GridSize(gx, gy)
    THEN CHOOSE r \in
             {RunItems(n, bufA, bufB, v, gx, gy, g + 1) :
                 v \in {main(n, bufA, bufB, bufOut,
                             ItemX(g, gx), ItemY(g, gx)).out}} : TRUE
    ELSE bufOut

ComputePass(n, bufA, bufB, bufOut) ==
    RunItems(n, bufA, bufB, bufOut, DISPATCH_X, DISPATCH_Y, 0)

(***************************************************************************)
(* Editing a cell                                                          *)
(***************************************************************************)
\* The text of an input field: <<v>> is text that reads as the number v,
\* <<>> is text that reads as no number (an emptied field).
TextOf(v) == <<v>>

\* parseFloat(value): the number read, or NaN.
parseFloat(value) ==
    IF value = <<>> THEN [isNaN |-> TRUE, num |-> 0]
    ELSE [isNaN |-> FALSE, num |-> value[1]]

\* updateMatrix's new matrix: a copy with newMatrix[row][col] set to the
\* parsed number, or to 0 when the text is not a number.
updateMatrix(matrix, row, col, value) ==
    LET parsed == parseFloat(value)
    IN  [matrix EXCEPT ![row + 1] =
            [matrix[row + 1] EXCEPT ![col + 1] =
                IF parsed.isNaN THEN 0 ELSE parsed.num]]

\* What the model types into a cell.
SmallInputs == {TextOf(v) : v \in 0..MaxVal} \cup {<<>>}
\* The least positive integer that is not a Float32, besides.
WideInputs == SmallInputs \cup {TextOf(F32_EXACT_LIMIT + 1)}

Cells == 0..(MATRIX_SIZE - 1)

\* The matrices a run of the data path starts from, before any edit.
BaseMatrices ==
    {createDefaultMatrix, InitialMatrixAN(MATRIX_SIZE),
     InitialMatrixBN(MATRIX_SIZE)}

(***************************************************************************)
(* The parts of the state a specification does not use stay as built.      *)
(***************************************************************************)
NoCalc ==
    [step |-> "input", given |-> <<>>, aData |-> <<>>, bData |-> <<>>,
     resultData |-> <<>>, newResultMatrix |-> <<>>]

NoItem ==
    [x |-> 0, y |-> 0, wrote |-> FALSE, index |-> -1,
     readsA |-> {}, readsB |-> {}]

NoGrid ==
    [n |-> MATRIX_SIZE, a |-> <<>>, b |-> <<>>, out |-> <<>>, g |-> 0,
     last |-> NoItem, count |-> <<>>]

ReactInit ==
    /\ resultMatrix = <<>>
    /\ error = NULL
    /\ loading = FALSE

(***************************************************************************)
(* The data path of one multiplication, stage by stage (lines 88-166       *)
(* without the failures): flatten, upload and dispatch, read back.         *)
(***************************************************************************)
DataInit ==
    /\ matrixA \in BaseMatrices
    /\ matrixB \in BaseMatrices
    /\ ReactInit
    /\ view = [loading |-> FALSE, a |-> matrixA, b |-> matrixB]
    /\ inv = <<>>
    /\ navigatorGpu = TRUE
    /\ edits = 0
    /\ calc = NoCalc
    /\ grid = NoGrid

DataEdit(inputs) ==
    /\ calc.step = "input"
    /\ edits < MaxEdits
    /\ \E row \in Cells, col \in Cells, value \in inputs :
         \/ /\ matrixA' = updateMatrix(matrixA, row, col, value)
            /\ UNCHANGED matrixB
         \/ /\ matrixB' = updateMatrix(matrixB, row, col, value)
            /\ UNCHANGED matrixA
    /\ edits' = edits + 1
    /\ UNCHANGED <<pageVars, calc, grid>>

\* const aData = flatten(matrixA); const bData = flatten(matrixB);
DataFlatten ==
    /\ calc.step = "input"
    /\ calc' = [calc EXCEPT !.step = "flat", !.given = matrixA,
                            !.aData = flatten(matrixA),
                            !.bData = flatten(matrixB)]
    /\ UNCHANGED <<matrixA, matrixB, pageVars, edits, grid>>

\* writeBuffer of both inputs, the compute pass on a zeroed resultBuffer,
\* the copy to readBuffer and the read of the mapped range.
DataDispatch ==
    /\ calc.step = "flat"
    /\ calc' = [calc EXCEPT !.step = "computed",
                  !.resultData = ComputePass(MATRIX_SIZE, calc.aData,
                                     calc.bData, ZeroBuffer(BUFFER_SIZE))]
    /\ UNCHANGED <<matrixA, matrixB, pageVars, edits, grid>>

\* Convert flat result to 2D matrix.
DataReconstruct ==
    /\ calc.step = "computed"
    /\ calc' = [calc EXCEPT !.step = "done",
                  !.newResultMatrix = reconstruct(calc.resultData)]
    /\ UNCHANGED <<matrixA, matrixB, pageVars, edits, grid>>

MulNext ==
    \/ DataEdit(SmallInputs)
    \/ DataFlatten
    \/ DataDispatch
    \/ DataReconstruct

SpecMul == DataInit /\ [][MulNext]_vars

\* The codec alone: flatten a matrix, then reconstruct the flat sequence.
CodecReconstruct ==
    /\ calc.step = "flat"
    /\ calc' = [calc EXCEPT !.step = "done",
                  !.newResultMatrix = reconstruct(calc.aData)]
    /\ UNCHANGED <<matrixA, matrixB, pageVars, edits, grid>>

CodecNext ==
    \/ DataEdit(WideInputs)
    \/ DataFlatten
    \/ CodecReconstruct

SpecCodec == DataInit /\ [][CodecNext]_vars

(***************************************************************************)
(* One dispatch of the shader generated for a configured dimension n,      *)
(* work item by work item, on the matrices a fresh page holds.             *)
(***************************************************************************)
GridInit ==
    /\ matrixA = InitialMatrixAN(MATRIX_SIZE)
    /\ matrixB = InitialMatrixBN(MATRIX_SIZE)
    /\ ReactInit
    /\ view = [loading |-> FALSE, a |-> matrixA, b |-> matrixB]
    /\ inv = <<>>
    /\ navigatorGpu = TRUE
    /\ edits = 0
    /\ calc = NoCalc
    /\ \E n \in 1..MaxN :
         grid = [n |-> n,
                 a |-> flatten(InitialMatrixAN(n)),
                 b |-> flatten(InitialMatrixBN(n)),
                 out |-> ZeroBuffer(n * n * 4),
                 g |-> 0,
                 last |-> NoItem,
                 count |-> [k \in 1..(n * n) |-> 0]]

\* The next work item of the grid runs main.
GridWorkItem ==
    /\ grid.g < GridSize(DISPATCH_X, DISPATCH_Y)
    /\ LET x == ItemX(grid.g, DISPATCH_X)
           y == ItemY(grid.g, DISPATCH_X)
           r == main(grid.n, grid.a, grid.b, grid.out, x, y)
       IN  grid' = [grid EXCEPT
                 !.out = r.out,
                 !.g = grid.g + 1,
                 !.last = [x |-> x, y |-> y, wrote |-> r.wrote,
                           index |-> r.index, readsA |-> r.readsA,
                           readsB |-> r.readsB],
                 !.count = IF r.wrote /\ r.index >= 0
                              /\ r.index < Len(grid.count)
                           THEN [grid.count EXCEPT ![r.index + 1] = @ + 1]
                           ELSE grid.count]
    /\ UNCHANGED <<matrixA, matrixB, pageVars, edits, calc>>

GridNext == GridWorkItem

SpecGrid == GridInit /\ [][GridNext]_vars

(***************************************************************************)
(* The page: HomePage's state, its renders, and multiplyMatrices.          *)
(*                                                                         *)
(* An invocation runs on the host between its awaits without interruption  *)
(* (one action per stretch); the device answers requests and executes its  *)
(* queue on its own. The objects WebGPU creates report an allocation or a  *)
(* compilation failure by being invalid, not by an exception: createBuffer,*)
(* createShaderModule and createComputePipeline return, and every command  *)
(* that uses an invalid object is refused by the device.                   *)
(***************************************************************************)
Invocations == 1..MaxInv

Buffers == {"aBuffer", "bBuffer", "resultBuffer", "readBuffer"}
Objects == Buffers \cup {"pipeline"}

\* The objects that may fail to be created in one invocation.
FaultSets == {bad \in SUBSET Objects : Cardinality(bad) <= MaxFaults}

\* The cells the model edits on the page, and what it types there.
EditCells == 0..MaxEditCell
PageInputs == {TextOf(MaxVal)}

IdleInvocation ==
    [pc |-> "idle", a |-> <<>>, b |-> <<>>,
     obj |-> [o \in Objects |-> "none"],
     mem |-> [o \in Buffers |-> <<>>],
     queue |-> <<>>, mapState |-> "unmapped",
     result |-> <<>>, reason |-> NULL,
     failed |-> {}, log |-> <<>>, writes |-> {}]

Rendered == [loading |-> loading, a |-> matrixA, b |-> matrixB]

Init ==
    /\ matrixA = InitialMatrixAN(MATRIX_SIZE)
    /\ matrixB = InitialMatrixBN(MATRIX_SIZE)
    /\ ReactInit
    /\ view = Rendered
    /\ inv = [i \in Invocations |-> IdleInvocation]
    /\ edits = 0
    /\ navigatorGpu \in BOOLEAN
    /\ calc = NoCalc
    /\ grid = NoGrid

\* React renders the component again: the page shows the state, and the
\* handlers close over it.
Render ==
    /\ view /= Rendered
    /\ view' = Rendered
    /\ UNCHANGED <<matrixA, matrixB, resultMatrix, error, loading, inv,
                   edits, navigatorGpu, calc, grid>>

\* onChange of a cell: updateMatrix on the matrix the handler closed over.
Edit ==
    /\ edits < MaxEdits
    /\ \E row \in EditCells, col \in EditCells, value \in PageInputs :
         \/ /\ matrixA' = updateMatrix(view.a, row, col, value)
            /\ UNCHANGED matrixB
         \/ /\ matrixB' = updateMatrix(view.b, row, col, value)
            /\ UNCHANGED matrixA
    /\ edits' = edits + 1
    /\ UNCHANGED <<resultMatrix, error, loading, view, inv, navigatorGpu,
                   calc, grid>>

\* The catch block: the invocation ends in error with the message.
Failed(r, stage, message) ==
    [r EXCEPT !.pc = "error", !.reason = message,
              !.failed = @ \cup {stage},
              !.writes = @ \cup {"error", "loading"}]

\* An end that leaves the loading flag set when the invocation failed.
SettleLoadingInTry(i, r) ==
    /\ inv' = [inv EXCEPT ![i] = r]
    /\ resultMatrix' = IF r.pc = "done" THEN r.result ELSE resultMatrix
    /\ error' = IF r.pc = "error" THEN r.reason ELSE error
    /\ loading' = IF r.pc = "done" THEN FALSE ELSE loading

\* The end of an invocation, r its last state: setResultMatrix(...) at the
\* end of the try block or setError(e.message) in the catch block, and
\* then setLoading(false).
Settle(i, r) ==
    /\ inv' = [inv EXCEPT ![i] = r]
    /\ resultMatrix' = IF r.pc = "done" THEN r.result ELSE resultMatrix
    /\ error' = IF r.pc = "error" THEN r.reason ELSE error
    /\ loading' = FALSE

\* A click on the button, which the page disables while it shows loading:
\* multiplyMatrices up to its first await.
Click(i) ==
    /\ ~view.loading
    /\ inv[i].pc = "idle"
    /\ \A j \in Invocations : j < i => inv[j].pc /= "idle"
    /\ LET r == [inv[i] EXCEPT !.a = view.a, !.b = view.b,
                               !.writes = {"error", "loading"}]
       IN  IF ~navigatorGpu
           THEN Settle(i, Failed(r, "platform",
                    "WebGPU is not supported on this browser."))
           ELSE /\ inv' = [inv EXCEPT ![i] = [r EXCEPT !.pc = "adapter"]]
                /\ error' = NULL
                /\ loading' = TRUE
                /\ UNCHANGED resultMatrix
    /\ UNCHANGED <<matrixA, matrixB, view, edits, navigatorGpu, calc, grid>>

\* requestAdapter() resolves, with an adapter or with null.
AdapterResolved(i) ==
    /\ inv[i].pc = "adapter"
    /\ \/ /\ inv' = [inv EXCEPT ![i].pc = "device"]
          /\ UNCHANGED <<resultMatrix, error, loading>>
       \/ Settle(i, Failed(inv[i], "adapter", "Failed to get GPU adapter."))
    /\ UNCHANGED <<matrixA, matrixB, view, edits, navigatorGpu, calc, grid>>

\* The commands the device accepts, in the order the host issues them:
\* a command that uses an invalid object is refused.
Accepted(obj) ==
    LET ok(o) == obj[o] = "valid"
        keep(cmd, cond) == IF cond THEN <<cmd>> ELSE <<>>
    IN  keep("writeA", ok("aBuffer"))
        \o keep("writeB", ok("bBuffer"))
        \o keep("compute", ok("pipeline") /\ ok("aBuffer") /\ ok("bBuffer")
                             /\ ok("resultBuffer"))
        \o keep("copy", ok("resultBuffer") /\ ok("readBuffer"))

\* Lines 88-154, from the device to the await of mapAsync, when the objects
\* in 'bad' fail to be created.
Submitted(r, bad) ==
    LET obj == [o \in Objects |-> IF o \in bad THEN "invalid" ELSE "valid"]
    IN  [r EXCEPT
            !.pc = "map",
            !.obj = obj,
            !.mem = [o \in Buffers |->
                        IF obj[o] = "valid" THEN ZeroBuffer(BUFFER_SIZE)
                        ELSE <<>>],
            !.queue = Accepted(obj),
            !.mapState = "pending",
            !.failed = bad,
            !.log = <<"writeBuffer(aBuffer)", "writeBuffer(bBuffer)",
                      "submit(compute)", "submit(copy)", "mapAsync">>]

\* requestDevice() resolves with a device, and the invocation runs to the
\* await of mapAsync; or it rejects.
DeviceResolved(i) ==
    /\ inv[i].pc = "device"
    /\ \/ /\ \E bad \in FaultSets :
               inv' = [inv EXCEPT ![i] = Submitted(inv[i], bad)]
          /\ UNCHANGED <<resultMatrix, error, loading>>
       \/ Settle(i, Failed(inv[i], "device", "requestDevice rejected"))
    /\ UNCHANGED <<matrixA, matrixB, view, edits, navigatorGpu, calc, grid>>

\* What a command of the queue does to the device's buffers.
Execute(r, cmd) ==
    CASE cmd = "writeA" ->
            [r.mem EXCEPT !["aBuffer"] = flatten(r.a)]
      [] cmd = "writeB" ->
            [r.mem EXCEPT !["bBuffer"] = flatten(r.b)]
      [] cmd = "compute" ->
            [r.mem EXCEPT !["resultBuffer"] =
                ComputePass(MATRIX_SIZE, r.mem["aBuffer"], r.mem["bBuffer"],
                            r.mem["resultBuffer"])]
      [] cmd = "copy" ->
            [r.mem EXCEPT !["readBuffer"] =
                Slice(r.mem["resultBuffer"], 0, BUFFER_SIZE \div 4)]

\* The device executes the command at the head of the invocation's queue.
DeviceExec(i) ==
    /\ inv[i].queue /= <<>>
    /\ inv' = [inv EXCEPT ![i].mem = Execute(inv[i], Head(inv[i].queue)),
                          ![i].queue = Tail(inv[i].queue)]
    /\ UNCHANGED <<matrixA, matrixB, resultMatrix, error, loading, view,
                   edits, navigatorGpu, calc, grid>>

\* mapAsync resolves once the buffer is valid and the commands submitted
\* before it have completed.
MapReady(r) == r.obj["readBuffer"] = "valid" /\ r.queue = <<>>

MapGranted(i) ==
    /\ inv[i].pc = "map"
    /\ MapReady(inv[i])
    /\ inv' = [inv EXCEPT ![i].pc = "mapped", ![i].mapState = "mapped"]
    /\ UNCHANGED <<matrixA, matrixB, resultMatrix, error, loading, view,
                   edits, navigatorGpu, calc, grid>>

\* The device is lost: its queue stops and its buffers are destroyed.
Lost(r) ==
    [r EXCEPT !.queue = <<>>,
              !.obj = [o \in Objects |->
                          IF o \in Buffers /\ r.obj[o] = "valid"
                          THEN "destroyed" ELSE r.obj[o]],
              !.mem = [o \in Buffers |-> <<>>]]

\* mapAsync rejects: the buffer is invalid, or the device is lost.
MapRejected(i) ==
    /\ inv[i].pc = "map"
    /\ LET r == [inv[i] EXCEPT !.mapState = "unmapped"]
       IN  \/ /\ r.obj["readBuffer"] = "invalid"
              /\ Settle(i, Failed(r, "map", "mapAsync rejected"))
           \/ /\ r.obj["readBuffer"] = "valid"
              /\ Settle(i, Failed(Lost(r), "map", "mapAsync rejected"))
    /\ UNCHANGED <<matrixA, matrixB, view, edits, navigatorGpu, calc, grid>>

\* Lines 155-166 after the mapping is granted: getMappedRange, the copy of
\* its bytes, unmap, the conversion to rows and setResultMatrix; or
\* getMappedRange or the copy throws, and the catch block runs.
ReadBack(i) ==
    /\ inv[i].pc = "mapped"
    /\ \/ LET resultData == Slice(inv[i].mem["readBuffer"], 0,
                                  Len(inv[i].mem["readBuffer"]))
          IN  Settle(i, [inv[i] EXCEPT
                  !.pc = "done",
                  !.mapState = "unmapped",
                  !.result = reconstruct(resultData),
                  !.log = @ \o <<"getMappedRange", "unmap">>,
                  !.writes = @ \cup {"resultMatrix", "loading"}])
       \/ Settle(i, Failed([inv[i] EXCEPT !.log = @ \o <<"getMappedRange">>],
                           "read", "getMappedRange threw"))
    /\ UNCHANGED <<matrixA, matrixB, view, edits, navigatorGpu, calc, grid>>

Next ==
    \/ Render
    \/ Edit
    \/ \E i \in Invocations :
         \/ Click(i)
         \/ AdapterResolved(i)
         \/ DeviceResolved(i)
         \/ DeviceExec(i)
         \/ MapGranted(i)
         \/ MapRejected(i)
         \/ ReadBack(i)

Spec == Init /\ [][Next]_vars

\* An answer to a request of invocation i (requestAdapter, requestDevice,
\* mapAsync), or the continuation of the invocation once mapped.
Answer(i) ==
    \/ AdapterResolved(i)
    \/ DeviceResolved(i)
    \/ MapGranted(i)
    \/ MapRejected(i)
    \/ ReadBack(i)

\* Every request is answered in the end, and a continuation that is ready
\* runs.
Answers == \A i \in Invocations : WF_vars(Answer(i))

SpecLive == Init /\ [][Next]_vars /\ Answers

(***************************************************************************)
(* Properties of the data path and of the dispatch                         *)
(***************************************************************************)
\* The product of row 'row' of A and column 'col' of B in exact arithmetic,
\* terms i..n-1.
RECURSIVE ExactDot(_, _, _, _, _, _)
ExactDot(A, B, n, row, col, i) ==
    IF i >= n THEN 0
    ELSE At(At(A, row), i) * At(At(B, i), col)
            + ExactDot(A, B, n, row, col, i + 1)

IsMatrix(m, n) == Len(m) = n /\ \A r \in 1..n : Len(m[r]) = n

\* C1: a multiplication that completes yields R with
\* R[row][col] = sum over i of A[row][i] * B[i][col] for all row, col < N;
\* in particular I * B = B, A * I = A and A * Zero = Zero.
C1_ProductIsStandard ==
    calc.step = "done" =>
        LET R == calc.newResultMatrix
        IN  /\ IsMatrix(R, MATRIX_SIZE)
            /\ \A row \in Cells, col \in Cells :
                 At(At(R, row), col) =
                     ExactDot(matrixA, matrixB, MATRIX_SIZE, row, col, 0)
            /\ matrixA = InitialMatrixAN(MATRIX_SIZE) => R = matrixB
            /\ matrixB = InitialMatrixAN(MATRIX_SIZE) => R = matrixA
            /\ matrixB = createDefaultMatrix => R = createDefaultMatrix

\* A completed product of the identity and a matrix that is not symmetric.
C1_Witness ==
    /\ calc.step = "done"
    /\ matrixA = InitialMatrixAN(MATRIX_SIZE)
    /\ matrixB = InitialMatrixBN(MATRIX_SIZE)
    /\ calc.newResultMatrix = matrixB

CeilDiv(a, b) == (a + b - 1) \div b

\* C2: for any configured dimension N the dispatch uses ceil(N/8) groups
\* along each dimension, and every output cell (row, col) with row, col < N
\* is computed by exactly one work item.
C2_DispatchCoversMatrix ==
    grid.g = GridSize(DISPATCH_X, DISPATCH_Y) =>
        /\ DISPATCH_X = CeilDiv(grid.n, WORKGROUP_SIZE)
        /\ DISPATCH_Y = CeilDiv(grid.n, WORKGROUP_SIZE)
        /\ \A k \in 1..(grid.n * grid.n) : grid.count[k] = 1

\* C3: a work item with x >= N or y >= N exits without writing; every
\* write is to an index y*N + x within 0..N*N-1, and every read of A and
\* of B is at an index within 0..N*N-1; the output keeps its N*N entries.
C3_KernelStaysInBounds ==
    /\ Len(grid.out) = grid.n * grid.n
    /\ grid.g > 0 =>
        LET it == grid.last
            valid == 0..(grid.n * grid.n - 1)
        IN  /\ (it.x >= grid.n \/ it.y >= grid.n) => ~it.wrote
            /\ it.wrote => /\ it.index = it.y * grid.n + it.x
                           /\ it.index \in valid
            /\ it.readsA \subseteq valid
            /\ it.readsB \subseteq valid

\* A dimension that is no multiple of the tile: a work item outside the
\* matrix has run, after work items inside it wrote.
C3_Witness ==
    /\ grid.n % WORKGROUP_SIZE /= 0
    /\ grid.n > 1
    /\ grid.g > grid.n
    /\ grid.last.x >= grid.n
    /\ ~grid.last.wrote
    /\ grid.count[1] = 1

IsF32Matrix(m) ==
    \A r \in 1..Len(m) : \A c \in 1..Len(m[r]) : Fround(m[r][c]) = m[r][c]

FlatIsRowMajor ==
    calc.step \in {"flat", "done"} =>
        /\ Len(calc.aData) = MATRIX_SIZE * MATRIX_SIZE
        /\ \A r \in Cells, c \in Cells :
             At(calc.aData, r * MATRIX_SIZE + c) = At(At(calc.given, r), c)
        /\ matrixA = calc.given

RoundTripIsExact ==
    calc.step = "done" => calc.newResultMatrix = calc.given

\* C8 as stated: for every N x N matrix m, flat[r*N + c] = m[r][c],
\* reconstruct(flatten(m), N) = m element for element, and flattening
\* leaves the caller's matrix as it was.
C8_RoundTripOfAnyMatrix == FlatIsRowMajor /\ RoundTripIsExact

\* C8 amended: the same, for every N x N matrix whose entries are exactly
\* representable in single precision.
C8_RoundTripOfF32Matrix ==
    (calc.step \in {"flat", "done"} /\ IsF32Matrix(calc.given)) =>
        FlatIsRowMajor /\ RoundTripIsExact

\* A matrix of Float32 values with distinct rows has made the round trip.
C8_Witness ==
    /\ calc.step = "done"
    /\ IsF32Matrix(calc.given)
    /\ calc.given = InitialMatrixBN(MATRIX_SIZE)
    /\ calc.newResultMatrix = calc.given

(***************************************************************************)
(* Properties of the page                                                  *)
(***************************************************************************)
Terminal == {"done", "error"}

InFlight(i) == inv[i].pc \notin (Terminal \cup {"idle"})

\* The output of the kernel for the matrices the invocation was started
\* with, as the staging buffer holds it after the copy.
KernelOutput(r) ==
    ComputePass(MATRIX_SIZE, flatten(r.a), flatten(r.b),
                ZeroBuffer(BUFFER_SIZE))

ExactProduct(A, B) ==
    [row \in 1..MATRIX_SIZE |-> [col \in 1..MATRIX_SIZE |->
        ExactDot(A, B, MATRIX_SIZE, row - 1, col - 1, 0)]]

\* C4: a failure at any stage moves the invocation directly to Error with
\* a failure reason, and an invocation that failed at any stage never
\* delivers a result matrix.
C4_FailureEndsInError ==
    \A i \in Invocations :
        inv[i].failed /= {} =>
            /\ inv[i].pc = "error"
            /\ inv[i].reason /= NULL
            /\ inv[i].result = <<>>

\* C5: no invocation ends, in Done or in Error, with its staging buffer
\* still mapped.
C5_UnmappedAtEnd ==
    \A i \in Invocations :
        inv[i].pc \in Terminal => inv[i].mapState /= "mapped"

\* C6: when two invocations are in flight at once, each one's outcome is
\* the product of the matrices it was started with, and neither writes
\* state the other writes.
C6_InvocationsShareNothing ==
    /\ \A i \in Invocations :
         (inv[i].pc = "done" /\ inv[i].failed = {}) =>
             inv[i].result = ExactProduct(inv[i].a, inv[i].b)
    /\ \A i, j \in Invocations :
         (i /= j /\ InFlight(i) /\ InFlight(j)) =>
             inv[i].writes \cap inv[j].writes = {}

\* C7: when an invocation reaches Done or Error, every buffer it allocated
\* has been released.
C7_BuffersReleasedAtEnd ==
    \A i \in Invocations :
        inv[i].pc \in Terminal =>
            \A o \in Buffers : inv[i].obj[o] /= "valid"

\* C9: provided the device answers each request, every started invocation
\* reaches Done or Error, stays there, and on reaching it the loading flag
\* is false again.
C9_EndsWithLoadingCleared ==
    /\ \A i \in Invocations :
         (inv[i].pc /= "idle") ~> (inv[i].pc \in Terminal)
    /\ [][\A i \in Invocations :
            /\ inv[i].pc \in Terminal => inv'[i].pc = inv[i].pc
            /\ (inv[i].pc \notin Terminal /\ inv'[i].pc \in Terminal)
                  => loading' = FALSE]_vars

\* Invocations have ended both ways, and the page does not show loading.
C9_Witness ==
    /\ \E i \in Invocations : inv[i].pc = "done"
    /\ \E i \in Invocations : inv[i].pc = "error"
    /\ \A i \in Invocations : inv[i].pc \in Terminal
    /\ ~loading

HostOrder ==
    <<"writeBuffer(aBuffer)", "writeBuffer(bBuffer)", "submit(compute)",
      "submit(copy)", "mapAsync", "getMappedRange", "unmap">>

\* What the host reads of the staging buffer is read once the mapping is
\* granted, after every queued command has completed, and it is the
\* kernel's output for the invocation's inputs.
ReadsKernelOutput(i) ==
    /\ inv[i].log = SubSeq(HostOrder, 1, Len(inv[i].log))
    /\ inv[i].mapState = "mapped" =>
         /\ inv[i].queue = <<>>
         /\ inv[i].mem["readBuffer"] = KernelOutput(inv[i])
    /\ inv[i].pc = "done" =>
         inv[i].result = reconstruct(KernelOutput(inv[i]))

\* C10: the host issues the uploads, the dispatch, the copy, the map
\* request and the read in that order, reads the staging bytes only after
\* the mapping is granted, and reads the kernel's completed output for the
\* invocation's inputs, never the zero-initialised buffer.
C10_HostReadsKernelOutput ==
    \A i \in Invocations : ReadsKernelOutput(i)

\* The same of the invocations in which every object was created valid.
OrderingWhenNothingFailed ==
    \A i \in Invocations : inv[i].failed = {} => ReadsKernelOutput(i)

====
